---- MODULE Spec2Model ----
(***************************************************************************)
(* KDE settings-module search: the descriptor parser (parseDesktopFile),   *)
(* the two-directory scanner (loadKCMModules), the search filter of        *)
(* SearchSettings and the two launchers named openKCMModule, modelled from *)
(* src/src/utils/command-executor.ts.  JavaScript strings are TLA+ strings *)
(* handled character by character (Len, SubSeq, \o).                       *)
(***************************************************************************)
EXTENDS Integers, Sequences, FiniteSets, TLC

(***************************************************************************)
(* Bounds of the model.                                                    *)
(***************************************************************************)
\* lines of the file handed to parseDesktopFile in SpecParse
MaxLines == 3
\* files over both directories in SpecScan
MaxFiles == 2
\* files over both directories in SpecUI
MaxUiFiles == 2
\* launches started in one SpecLaunch behaviour
MaxLaunches == 2
\* clock ticks an external process is followed for
MaxTicks == 3

(***************************************************************************)
(* String primitives of the JavaScript runtime, as the code uses them.     *)
(***************************************************************************)
\* s[i] for a 1-based position
CharAt(s, i) == SubSeq(s, i, i)

\* String.prototype.startsWith
StartsWith(s, p) == Len(s) >= Len(p) /\ SubSeq(s, 1, Len(p)) = p

\* String.prototype.endsWith
EndsWith(s, p) == Len(s) >= Len(p) /\ SubSeq(s, Len(s) - Len(p) + 1, Len(s)) = p

\* String.prototype.includes
Includes(s, p) ==
    \E i \in 1..(Len(s) - Len(p) + 1) : SubSeq(s, i, i + Len(p) - 1) = p

\* String.prototype.substring(n): the characters from 0-based position n on
Substring(s, n) == SubSeq(s, n + 1, Len(s))

\* the characters \s and trim() treat as white space
IsSpace(c) == c \in {" ", "\t", "\r", "\n"}

RECURSIVE TrimStart(_)
TrimStart(s) ==
    IF Len(s) > 0 /\ IsSpace(CharAt(s, 1)) THEN TrimStart(Tail(s)) ELSE s

RECURSIVE TrimEnd(_)
TrimEnd(s) ==
    IF Len(s) > 0 /\ IsSpace(CharAt(s, Len(s)))
    THEN TrimEnd(SubSeq(s, 1, Len(s) - 1))
    ELSE s

\* String.prototype.trim
Trim(s) == TrimEnd(TrimStart(s))

\* the k-th smallest element of a set of positions
Kth(P, k) == CHOOSE p \in P : Cardinality({q \in P : q < p}) = k - 1

\* the pieces of s between the separators that start at the positions starts
\* and end at the positions ends
SplitAt(s, starts, ends) ==
    LET n == Cardinality(starts)
    IN  [k \in 1..(n + 1) |->
            SubSeq(s,
                   IF k = 1 THEN 1 ELSE Kth(ends, k - 1) + 1,
                   IF k = n + 1 THEN Len(s) ELSE Kth(starts, k) - 1)]

\* String.prototype.split(sep) for a one-character separator
Split(s, sep) ==
    LET at == {i \in 1..Len(s) : CharAt(s, i) = sep}
    IN  SplitAt(s, at, at)

\* String.prototype.split(/\s+/): the separators are the maximal runs of white space
SplitWs(s) ==
    LET ws == {i \in 1..Len(s) : IsSpace(CharAt(s, i))}
    IN  SplitAt(s, {i \in ws : (i - 1) \notin ws}, {i \in ws : (i + 1) \notin ws})

LowerLetters == "abcdefghijklmnopqrstuvwxyz"
UpperLetters == "ABCDEFGHIJKLMNOPQRSTUVWXYZ"

\* position of character c in the string alphabet, 0 when it is not there
IndexIn(alphabet, c) ==
    IF \E i \in 1..Len(alphabet) : CharAt(alphabet, i) = c
    THEN CHOOSE i \in 1..Len(alphabet) : CharAt(alphabet, i) = c
    ELSE 0

LowerChar(c) ==
    IF IndexIn(UpperLetters, c) > 0
    THEN CharAt(LowerLetters, IndexIn(UpperLetters, c))
    ELSE c

RECURSIVE ToLowerCase(_)
\* String.prototype.toLowerCase
ToLowerCase(s) ==
    IF Len(s) = 0 THEN "" ELSE LowerChar(CharAt(s, 1)) \o ToLowerCase(Tail(s))

RECURSIVE MapTrim(_)
MapTrim(ks) ==
    IF Len(ks) = 0 THEN <<>> ELSE <<Trim(Head(ks))>> \o MapTrim(Tail(ks))

RECURSIVE FilterNonEmpty(_)
FilterNonEmpty(ks) ==
    IF Len(ks) = 0 THEN <<>>
    ELSE IF Len(Head(ks)) > 0
         THEN <<Head(ks)>> \o FilterNonEmpty(Tail(ks))
         ELSE FilterNonEmpty(Tail(ks))

(***************************************************************************)
(* parseDesktopFile                                                        *)
(***************************************************************************)
\* the value a function returns for "no module"
Null == [null |-> TRUE]

\* a file as readFileSync sees it: its text, or a read that throws
Unreadable == [readable |-> FALSE, content |-> ""]
Readable(text) == [readable |-> TRUE, content |-> text]

\* the locals of parseDesktopFile before its loop
InitialFields ==
    [name |-> "", description |-> "", icon |-> "", keywords |-> <<>>,
     moduleId |-> "", execCommand |-> ""]

\* keywordStr.split(',').map(k => k.trim()).filter(k => k.length > 0)
ParseKeywords(line) == FilterNonEmpty(MapTrim(Split(Trim(Substring(line, 15)), ",")))

\* one iteration of the loop over the lines: the if / else-if chain
ParseLine(f, line) ==
    IF StartsWith(line, "Name=") /\ ~Includes(line, "[")
    THEN [f EXCEPT !.name = Trim(Substring(line, 5))]
    ELSE IF StartsWith(line, "Comment=") /\ ~Includes(line, "[")
    THEN [f EXCEPT !.description = Trim(Substring(line, 8))]
    ELSE IF StartsWith(line, "Icon=")
    THEN [f EXCEPT !.icon = Trim(Substring(line, 5))]
    ELSE IF StartsWith(line, "X-KDE-Keywords=") /\ ~Includes(line, "[")
    THEN [f EXCEPT !.keywords = ParseKeywords(line)]
    ELSE IF StartsWith(line, "X-KDE-Library=")
    THEN [f EXCEPT !.moduleId = Trim(Substring(line, 14))]
    ELSE IF StartsWith(line, "Exec=")
    THEN [f EXCEPT !.execCommand = Trim(Substring(line, 5))]
    ELSE f

RECURSIVE ParseLines(_, _)
\* for (const line of lines) { ... }
ParseLines(f, lines) ==
    IF Len(lines) = 0 THEN f ELSE ParseLines(ParseLine(f, Head(lines)), Tail(lines))

\* the locals after the loop over content.split('\n')
ParseFields(text) == ParseLines(InitialFields, Split(text, "\n"))

\* ResolveCommand with the two branches in the other order
ResolveCommand_LegacyFirst(f) ==
    IF Len(f.moduleId) > 0
    THEN [finalModuleId |-> f.moduleId, finalCommand |-> "kcmshell6 " \o f.moduleId]
    ELSE IF Includes(f.execCommand, "systemsettings")
    THEN LET parts == SplitWs(f.execCommand)
         IN  IF Len(parts) > 1 /\ Len(parts[2]) > 0
             THEN [finalModuleId |-> parts[2], finalCommand |-> f.execCommand]
             ELSE [finalModuleId |-> "", finalCommand |-> ""]
    ELSE [finalModuleId |-> "", finalCommand |-> ""]

\* finalModuleId and finalCommand
ResolveCommand(f) ==
    IF Includes(f.execCommand, "systemsettings")
    THEN LET parts == SplitWs(f.execCommand)
         IN  IF Len(parts) > 1 /\ Len(parts[2]) > 0
             THEN [finalModuleId |-> parts[2], finalCommand |-> f.execCommand]
             ELSE [finalModuleId |-> "", finalCommand |-> ""]
    ELSE IF Len(f.moduleId) > 0
    THEN [finalModuleId |-> f.moduleId, finalCommand |-> "kcmshell6 " \o f.moduleId]
    ELSE [finalModuleId |-> "", finalCommand |-> ""]

\* BuildModule without its first early return
BuildModule_NoNameCheck(f) ==
    LET r == ResolveCommand(f)
    IN  IF Len(r.finalModuleId) = 0 THEN Null
        ELSE [id |-> r.finalModuleId,
              name |-> f.name,
              description |-> IF Len(f.description) > 0 THEN f.description ELSE f.name,
              icon |-> IF Len(f.icon) > 0 THEN f.icon ELSE "preferences-system",
              keywords |-> f.keywords,
              execCommand |-> r.finalCommand]

\* the two early returns and the returned object
BuildModule(f) ==
    IF Len(f.name) = 0 THEN Null
    ELSE LET r == ResolveCommand(f)
         IN  IF Len(r.finalModuleId) = 0 THEN Null
             ELSE [id |-> r.finalModuleId,
                   name |-> f.name,
                   description |-> IF Len(f.description) > 0 THEN f.description ELSE f.name,
                   icon |-> IF Len(f.icon) > 0 THEN f.icon ELSE "preferences-system",
                   keywords |-> f.keywords,
                   execCommand |-> r.finalCommand]

\* parseDesktopFile(filePath) for the file found at filePath
parseDesktopFile(file) ==
    IF ~file.readable THEN Null ELSE BuildModule(ParseFields(file.content))

(***************************************************************************)
(* loadKCMModules                                                          *)
(***************************************************************************)
\* file.startsWith('kcm_') && file.endsWith('.desktop') in /usr/share/applications,
\* file.endsWith('.desktop') in /usr/share/kservices5
AcceptsFile(origin, fname) ==
    IF origin = "applications"
    THEN StartsWith(fname, "kcm_") /\ EndsWith(fname, ".desktop")
    ELSE EndsWith(fname, ".desktop")

\* PushIfNew without the test of seen
PushIfNew_NoSeenTest(acc, module) ==
    IF module # Null
    THEN [acc EXCEPT !.modules = Append(acc.modules, module),
                     !.seen = acc.seen \cup {module.id}]
    ELSE acc

\* if (module && !seen.has(module.id)) { modules.push(module); seen.add(module.id); }
PushIfNew(acc, module) ==
    IF module # Null /\ module.id \notin acc.seen
    THEN [acc EXCEPT !.modules = Append(acc.modules, module),
                     !.seen = acc.seen \cup {module.id}]
    ELSE acc

RECURSIVE ScanFiles_StopAtUnreadable(_, _, _)
\* ScanFiles when an unreadable file ends the loop over its directory
ScanFiles_StopAtUnreadable(acc, origin, files) ==
    IF Len(files) = 0 THEN acc
    ELSE IF AcceptsFile(origin, Head(files).name) /\ ~Head(files).file.readable
    THEN acc
    ELSE ScanFiles_StopAtUnreadable(
             IF AcceptsFile(origin, Head(files).name)
             THEN PushIfNew(acc, parseDesktopFile(Head(files).file))
             ELSE acc,
             origin, Tail(files))

RECURSIVE ScanFiles(_, _, _)
\* for (const file of files) { ... }
ScanFiles(acc, origin, files) ==
    IF Len(files) = 0 THEN acc
    ELSE ScanFiles(IF AcceptsFile(origin, Head(files).name)
                   THEN PushIfNew(acc, parseDesktopFile(Head(files).file))
                   ELSE acc,
                   origin, Tail(files))

\* if (existsSync(dir)) { try { readdirSync ... } catch { console.error } }
ScanOrigin(acc, origin, dir) ==
    IF ~dir.exists THEN acc
    ELSE IF ~dir.listable
         THEN acc                       \* readdirSync threw: caught and logged
         ELSE ScanFiles(acc, origin, dir.files)

\* the sign of a.localeCompare(b): letters in alphabetical order whatever their
\* case, the lower-case form first among strings that differ in case only
CollationOrder == " _-,.=[]0123456789abcdefghijklmnopqrstuvwxyz"

RECURSIVE ComparePrimary(_, _)
ComparePrimary(a, b) ==
    IF Len(a) = 0 /\ Len(b) = 0 THEN 0
    ELSE IF Len(a) = 0 THEN -1
    ELSE IF Len(b) = 0 THEN 1
    ELSE LET ra == IndexIn(CollationOrder, LowerChar(CharAt(a, 1)))
             rb == IndexIn(CollationOrder, LowerChar(CharAt(b, 1)))
         IN  IF ra < rb THEN -1
             ELSE IF ra > rb THEN 1
             ELSE ComparePrimary(Tail(a), Tail(b))

RECURSIVE CompareCase(_, _)
CompareCase(a, b) ==
    IF Len(a) = 0 \/ Len(b) = 0 THEN 0
    ELSE IF CharAt(a, 1) = CharAt(b, 1) THEN CompareCase(Tail(a), Tail(b))
    ELSE IF IndexIn(LowerLetters, CharAt(a, 1)) > 0 THEN -1
    ELSE 1

localeCompare(a, b) ==
    IF ComparePrimary(a, b) # 0 THEN ComparePrimary(a, b) ELSE CompareCase(a, b)

RECURSIVE InsertSorted(_, _)
\* x goes behind every element that does not compare greater than it
InsertSorted(sorted, x) ==
    IF Len(sorted) = 0 THEN <<x>>
    ELSE IF localeCompare(Head(sorted).name, x.name) <= 0
         THEN <<Head(sorted)>> \o InsertSorted(Tail(sorted), x)
         ELSE <<x>> \o sorted

RECURSIVE SortFrom(_, _)
SortFrom(sorted, rest) ==
    IF Len(rest) = 0 THEN sorted
    ELSE SortFrom(InsertSorted(sorted, Head(rest)), Tail(rest))

\* SortByName that leaves the array as it is
SortByName_Unsorted(ms) == ms

\* modules.sort((a, b) => a.name.localeCompare(b.name)): Array.prototype.sort is stable
SortByName(ms) == SortFrom(<<>>, ms)

\* the modules array before the sort
ScanBoth(fsys) ==
    ScanOrigin(ScanOrigin([modules |-> <<>>, seen |-> {}],
                          "applications", fsys.applications),
               "kservices5", fsys.kservices5)

loadKCMModules(fsys) == SortByName(ScanBoth(fsys).modules)

(***************************************************************************)
(* SearchSettings: the filter                                              *)
(***************************************************************************)
\* SomeKeyword that compares the keywords as they are written
SomeKeyword_CaseSensitive(keywords, search) ==
    \E i \in 1..Len(keywords) : Includes(keywords[i], search)

\* module.keywords.some(keyword => keyword.toLowerCase().includes(search))
SomeKeyword(keywords, search) ==
    \E i \in 1..Len(keywords) : Includes(ToLowerCase(keywords[i]), search)

\* the predicate handed to modules.filter
MatchesSearch(module, text) ==
    IF Len(text) = 0 THEN TRUE
    ELSE LET search == ToLowerCase(text)
         IN  \/ Includes(ToLowerCase(module.name), search)
             \/ Includes(ToLowerCase(module.description), search)
             \/ SomeKeyword(module.keywords, search)

RECURSIVE FilterModules(_, _)
\* modules.filter(...)
FilterModules(ms, text) ==
    IF Len(ms) = 0 THEN <<>>
    ELSE IF MatchesSearch(Head(ms), text)
         THEN <<Head(ms)>> \o FilterModules(Tail(ms), text)
         ELSE FilterModules(Tail(ms), text)

(***************************************************************************)
(* State                                                                   *)
(***************************************************************************)
VARIABLES
    file,        \* SpecParse: the file parseDesktopFile is called on
    fields,      \* SpecParse: the locals of parseDesktopFile after its loop
    result,      \* SpecParse: what parseDesktopFile returned
    fs,          \* the two directories: [applications, kservices5]
    modules,     \* useState: the loaded modules
    isLoading,   \* useState: TRUE until the mount effect has run
    searchText,  \* useState: the query
    pc,          \* where the running openKCMModule call is
    kind,        \* which openKCMModule runs: "exported" (line 7) or "action" (line 179)
    moduleName,  \* argument of the exported openKCMModule
    command,     \* the command string handed to execAsync
    proc,        \* the external process: "none", "running", "ok", "failed", "killed"
    elapsed,     \* milliseconds the external process has been running
    events,      \* what the running call did so far, in order
    launches     \* calls of openKCMModule started so far

vars == <<file, fields, result, fs, modules, isLoading, searchText,
          pc, kind, moduleName, command, proc, elapsed, events, launches>>

parseVars == <<file, fields, result>>
uiVars == <<fs, modules, isLoading, searchText>>
launchVars == <<pc, kind, moduleName, command, proc, elapsed, events, launches>>

\* result before parseDesktopFile has been called
NotRun == [pending |-> TRUE]

(***************************************************************************)
(* The inputs the specifications draw from                                 *)
(***************************************************************************)
RECURSIVE JoinLines(_)
\* the text of a file made of the given lines
JoinLines(ls) ==
    IF Len(ls) = 0 THEN ""
    ELSE IF Len(ls) = 1 THEN Head(ls)
    ELSE Head(ls) \o "\n" \o JoinLines(Tail(ls))

SeqsUpTo(S, n) == UNION {[1..k -> S] : k \in 0..n}

\* lines of desktop files: both schemas, locale-qualified keys, padded values,
\* a value with a bracket in it
ParseLineSet ==
    {"Name= Foo ", "Name[de]=Qux", "Name= ", "Name=A [b]",
     "Comment=Hi", "Comment[de]=Ho",
     "X-KDE-Keywords=a, ,BT", "X-KDE-Keywords[de]=zz",
     "Exec= systemsettings  kcm_foo ", "Exec=systemsettings",
     "X-KDE-Library=kcm_bar"}

ParseFiles ==
    {Unreadable} \cup {Readable(JoinLines(ls)) : ls \in SeqsUpTo(ParseLineSet, MaxLines)}

\* file contents of the scanned directories: two files that resolve to kcm_foo,
\* two with the name Bar, names that differ in case, a file without a name
ScanPool ==
    {Readable("Name=Foo\nExec=systemsettings kcm_foo"),
     Readable("Name=bar\nX-KDE-Library=kcm_foo"),
     Readable("Name=Bar\nX-KDE-Library=kcm_bar"),
     Readable("Name=Bar\nExec=systemsettings kcm_baz"),
     Readable("Comment=x\nExec=systemsettings kcm_x"),
     Unreadable}

ScanNames == {"kcm_a.desktop", "kcm_b.desktop", "c.desktop", "kcm_d.txt"}

UiPool ==
    {Readable("Name=Bluetooth\nComment=Manage devices\nX-KDE-Keywords=wireless,BT\nExec=systemsettings kcm_bluetooth"),
     Readable("Name=Display\nX-KDE-Library=kcm_kscreen"),
     Readable("Name=Mouse\nComment=Pointer speed\nX-KDE-Keywords=Blue\nExec=systemsettings kcm_mouse")}

UiNames == {"kcm_a.desktop", "kcm_b.desktop"}

Queries == {"", "bt", "BLUE", "s", "Dev", "zz"}

Origins == {"applications", "kservices5"}

\* a directory cannot hold two files of one name
DistinctNames(es) ==
    \A i, j \in 1..Len(es) :
        (i < j /\ es[i].origin = es[j].origin) => es[i].name # es[j].name

FilesOf(es, origin) == SelectSeq(es, LAMBDA e : e.origin = origin)

Directory(es, origin, status) ==
    [exists |-> status # "absent", listable |-> status = "ok", files |-> FilesOf(es, origin)]

\* the file systems with at most n files over the two directories; a directory
\* that is absent or cannot be listed is given no files
FileSystems(pool, names, n) ==
    {[applications |-> Directory(es, "applications", sa),
      kservices5 |-> Directory(es, "kservices5", sb)] :
        <<es, sa, sb>> \in
            {t \in SeqsUpTo([origin : Origins, name : names, file : pool], n)
                   \X {"ok", "absent", "unlistable"} \X {"ok", "absent", "unlistable"} :
                /\ DistinctNames(t[1])
                /\ (t[2] # "ok" => FilesOf(t[1], "applications") = <<>>)
                /\ (t[3] # "ok" => FilesOf(t[1], "kservices5") = <<>>)}}

(***************************************************************************)
(* Constants of the program                                                *)
(***************************************************************************)
\* execAsync(command, { timeout: 20000 })
timeout == 20000

\* the clock of the model advances in steps of half the timeout
TickMs == timeout \div 2

(***************************************************************************)
(* Actions                                                                 *)
(***************************************************************************)
IdleLaunch ==
    /\ pc = "idle" /\ kind = "none" /\ moduleName = "" /\ command = ""
    /\ proc = "none" /\ elapsed = 0 /\ events = <<>> /\ launches = 0

NoParse == file = Unreadable /\ fields = InitialFields /\ result = NotRun

\* the state of SearchSettings at its first render
FirstRender(fallbackTexts) ==
    /\ modules = <<>>
    /\ isLoading = TRUE
    /\ searchText \in fallbackTexts     \* props.fallbackText || ''

\* a call parseDesktopFile(filePath)
ParseFile ==
    /\ result = NotRun
    /\ fields' = IF file.readable THEN ParseFields(file.content) ELSE InitialFields
    /\ result' = parseDesktopFile(file)
    /\ UNCHANGED <<file, uiVars, launchVars>>

\* useEffect(() => { setModules(loadKCMModules()); setIsLoading(false); }, [])
Mount ==
    /\ isLoading
    /\ modules' = loadKCMModules(fs)
    /\ isLoading' = FALSE
    /\ UNCHANGED <<fs, searchText, parseVars, launchVars>>

\* onSearchTextChange={setSearchText}
onSearchTextChange(text) ==
    /\ searchText' = text
    /\ searchText' # searchText
    /\ UNCHANGED <<fs, modules, isLoading, parseVars, launchVars>>

\* the list SearchSettings renders
filteredModules == FilterModules(modules, searchText)

CanCall == pc \in {"idle", "done"} /\ launches < MaxLaunches

\* onAction={() => openKCMModule(module.execCommand)}: line 179, try { await execAsync(command)
onAction(module) ==
    /\ CanCall
    /\ kind' = "action"
    /\ moduleName' = ""
    /\ command' = module.execCommand
    /\ pc' = "exec"
    /\ proc' = "none"
    /\ elapsed' = 0
    /\ events' = <<>>
    /\ launches' = launches + 1
    /\ UNCHANGED <<uiVars, parseVars>>

\* a call of the exported openKCMModule(moduleName, command): line 7
CallExported(module) ==
    /\ CanCall
    /\ kind' = "exported"
    /\ moduleName' = module.name
    /\ command' = module.execCommand
    /\ pc' = "opening"
    /\ proc' = "none"
    /\ elapsed' = 0
    /\ events' = <<>>
    /\ launches' = launches + 1
    /\ UNCHANGED <<uiVars, parseVars>>

Toast(title, message) == [type |-> "toast", title |-> title, message |-> message]

\* await showToast({ title: `Opening ${moduleName}...`, ... })
ShowOpening ==
    /\ pc = "opening"
    /\ events' = Append(events, Toast("Opening " \o moduleName \o "...",
                                      "Launching KDE System Settings"))
    /\ pc' = "exec"
    /\ UNCHANGED <<kind, moduleName, command, proc, elapsed, launches, uiVars, parseVars>>

\* the timeout option execAsync is given: none (0) in the call of line 181
ExecTimeout == IF kind = "exported" THEN timeout ELSE 0

\* execAsync(command, ...) starts the process
Spawn ==
    /\ pc = "exec"
    /\ events' = Append(events, [type |-> "spawn", title |-> command, message |-> ""])
    /\ proc' = "running"
    /\ elapsed' = 0
    /\ pc' = "await"
    /\ UNCHANGED <<kind, moduleName, command, launches, uiVars, parseVars>>

\* time passes while the process runs; with a timeout option it runs no longer than that
Tick ==
    /\ pc = "await" /\ proc = "running"
    /\ elapsed < MaxTicks * TickMs
    /\ (ExecTimeout = 0 \/ elapsed < ExecTimeout)
    /\ elapsed' = elapsed + TickMs
    /\ UNCHANGED <<pc, kind, moduleName, command, proc, events, launches, uiVars, parseVars>>

\* the process ends by itself: exit code 0, or an error / a non-zero exit
ProcessExits(ok) ==
    /\ pc = "await" /\ proc = "running"
    /\ proc' = IF ok THEN "ok" ELSE "failed"
    /\ pc' = IF ok THEN "resolved" ELSE "catch"
    /\ UNCHANGED <<kind, moduleName, command, elapsed, events, launches, uiVars, parseVars>>

\* exec's timeout option: the process is killed and the promise rejects
TimeoutExpires ==
    /\ pc = "await" /\ proc = "running"
    /\ ExecTimeout > 0 /\ elapsed >= ExecTimeout
    /\ proc' = "killed"
    /\ pc' = "catch"
    /\ UNCHANGED <<kind, moduleName, command, elapsed, events, launches, uiVars, parseVars>>

\* what follows the await of execAsync in the try block
AfterExecEvents ==
    IF kind = "exported"
    THEN <<Toast("Success", moduleName \o " opened successfully"),
           [type |-> "close", title |-> "", message |-> ""]>>
    ELSE <<>>

\* a catch block of the exported launcher that also closes the window
CatchEvents_AlsoCloses ==
    IF kind = "exported"
    THEN <<Toast("Error", "Failed to open " \o moduleName \o ": Command failed: " \o command),
           [type |-> "close", title |-> "", message |-> ""]>>
    ELSE <<[type |-> "console.error", title |-> "Error opening module:", message |-> ""]>>

\* the catch block
CatchEvents ==
    IF kind = "exported"
    THEN <<Toast("Error", "Failed to open " \o moduleName \o ": Command failed: " \o command)>>
    ELSE <<[type |-> "console.error", title |-> "Error opening module:", message |-> ""]>>

\* await showToast({ title: "Success", ... }); await closeMainWindow();
Resolved ==
    /\ pc = "resolved"
    /\ events' = events \o AfterExecEvents
    /\ pc' = "done"
    /\ UNCHANGED <<kind, moduleName, command, proc, elapsed, launches, uiVars, parseVars>>

\* catch (error) { ... }
Caught ==
    /\ pc = "catch"
    /\ events' = events \o CatchEvents
    /\ pc' = "done"
    /\ UNCHANGED <<kind, moduleName, command, proc, elapsed, launches, uiVars, parseVars>>

(***************************************************************************)
(* Specifications                                                          *)
(***************************************************************************)
\* parseDesktopFile on every file of at most MaxLines lines, which is also the
\* one file of /usr/share/applications when SearchSettings mounts
InitParse ==
    /\ file \in ParseFiles
    /\ fields = InitialFields
    /\ result = NotRun
    /\ fs = [applications |->
                Directory(<<[origin |-> "applications", name |-> "kcm_a.desktop",
                             file |-> file]>>, "applications", "ok"),
             kservices5 |-> Directory(<<>>, "kservices5", "absent")]
    /\ FirstRender({""})
    /\ IdleLaunch

NextParse == ParseFile \/ Mount

SpecParse == InitParse /\ [][NextParse]_vars

\* loadKCMModules on every file system of at most MaxFiles files
InitScan ==
    /\ fs \in FileSystems(ScanPool, ScanNames, MaxFiles)
    /\ FirstRender({""})
    /\ NoParse
    /\ IdleLaunch

NextScan == Mount

SpecScan == InitScan /\ [][NextScan]_vars

\* SearchSettings: mount and queries
InitUI ==
    /\ fs \in FileSystems(UiPool, UiNames, MaxUiFiles)
    /\ FirstRender({"", "bt"})
    /\ NoParse
    /\ IdleLaunch

NextUI ==
    \/ Mount
    \/ \E text \in Queries : onSearchTextChange(text)

SpecUI == InitUI /\ [][NextUI]_vars

\* launches of the modules of a loaded list
InitLaunch ==
    /\ fs \in FileSystems(UiPool, {"kcm_a.desktop"}, 1)
    /\ FirstRender({""})
    /\ NoParse
    /\ IdleLaunch

NextLaunch ==
    \/ Mount
    \/ \E i \in 1..Len(filteredModules) : onAction(filteredModules[i])
    \/ \E i \in 1..Len(modules) : CallExported(modules[i])
    \/ ShowOpening
    \/ Spawn
    \/ Tick
    \/ \E ok \in BOOLEAN : ProcessExits(ok)
    \/ TimeoutExpires
    \/ Resolved
    \/ Caught

SpecLaunch == InitLaunch /\ [][NextLaunch]_vars

\* the whole program: SearchSettings over a directory pair of at most one file,
\* with the queries and the launches
Init ==
    /\ fs \in FileSystems(UiPool, {"kcm_a.desktop"}, 1)
    /\ FirstRender({"", "bt"})
    /\ NoParse
    /\ IdleLaunch

Next ==
    \/ NextUI
    \/ \E i \in 1..Len(filteredModules) : onAction(filteredModules[i])
    \/ \E i \in 1..Len(modules) : CallExported(modules[i])
    \/ ShowOpening
    \/ Spawn
    \/ Tick
    \/ \E ok \in BOOLEAN : ProcessExits(ok)
    \/ TimeoutExpires
    \/ Resolved
    \/ Caught

Spec == Init /\ [][Next]_vars

(***************************************************************************)
(* What a desktop file says, read off its lines                            *)
(***************************************************************************)
\* the lines of the file that start with prefix
LinesWith(text, prefix) == SelectSeq(Split(text, "\n"), LAMBDA l : StartsWith(l, prefix))

\* the trimmed value of the last line that starts with prefix, "" without one
LastValue(text, prefix) ==
    LET ls == LinesWith(text, prefix)
    IN  IF Len(ls) = 0 THEN "" ELSE Trim(Substring(ls[Len(ls)], Len(prefix)))

\* the same over the lines that hold no bracket at all
LastPlainValue(text, prefix) ==
    LET ls == SelectSeq(LinesWith(text, prefix), LAMBDA l : ~Includes(l, "["))
    IN  IF Len(ls) = 0 THEN "" ELSE Trim(Substring(ls[Len(ls)], Len(prefix)))

\* the white-space separated tokens of a command
Tokens(cmd) == SelectSeq(SplitWs(cmd), LAMBDA t : Len(t) > 0)

\* step 1 of the resolution yields an identifier
ModernYields(exec) == Includes(exec, "systemsettings") /\ Len(Tokens(exec)) >= 2

Parsed == result # NotRun /\ file.readable

IsDescriptor(m) ==
    /\ m # Null
    /\ DOMAIN m = {"id", "name", "description", "icon", "keywords", "execCommand"}

(***************************************************************************)
(* C1: legacy fallback of parse.  For every record with a non-empty name,  *)
(* whenever the modern rule yields no identifier (Exec missing, or without *)
(* the token systemsettings, or with it but with fewer than two tokens)    *)
(* and a non-empty X-KDE-Library value was captured, parse returns a       *)
(* descriptor whose id is that value and whose launch command is           *)
(* "kcmshell6 <moduleId>".                                                 *)
(***************************************************************************)
C1_LegacyFallback ==
    (/\ Parsed
     /\ LastPlainValue(file.content, "Name=") # ""
     /\ ~ModernYields(LastValue(file.content, "Exec="))
     /\ LastValue(file.content, "X-KDE-Library=") # "")
    => /\ IsDescriptor(result)
       /\ result.id = LastValue(file.content, "X-KDE-Library=")
       /\ result.execCommand = "kcmshell6 " \o LastValue(file.content, "X-KDE-Library=")

NameIsEmpty(text) == LastPlainValue(text, "Name=") = ""

\* step 2 of the resolution is reached and yields an identifier
LegacyYields(text) ==
    /\ ~Includes(LastValue(text, "Exec="), "systemsettings")
    /\ LastValue(text, "X-KDE-Library=") # ""

NonEmptyDescriptor(m) ==
    IsDescriptor(m) /\ Len(m.id) > 0 /\ Len(m.name) > 0 /\ Len(m.execCommand) > 0

C4_UnqualifiedKeyWins ==
    Parsed =>
      /\ Len(LinesWith(file.content, "Name=")) = 1
            => fields.name = LastValue(file.content, "Name=")
      /\ Len(LinesWith(file.content, "Comment=")) = 1
            => fields.description = LastValue(file.content, "Comment=")
      /\ Len(LinesWith(file.content, "X-KDE-Keywords=")) = 1
            => fields.keywords =
                 ParseKeywords(LinesWith(file.content, "X-KDE-Keywords=")[1])

(***************************************************************************)
(* What a scan has to return, read off the file system                     *)
(***************************************************************************)
\* the files of a directory the scan looks at, in enumeration order
ListedFiles(origin, dir) ==
    IF dir.exists /\ dir.listable
    THEN SelectSeq(dir.files, LAMBDA e : AcceptsFile(origin, e.name))
    ELSE <<>>

\* the files in scan order: all of /usr/share/applications, then /usr/share/kservices5
ScanOrder(fsys) ==
    ListedFiles("applications", fsys.applications)
        \o ListedFiles("kservices5", fsys.kservices5)

\* the descriptors of the parseable files, in scan order
Candidates(fsys) ==
    LET all == [k \in 1..Len(ScanOrder(fsys)) |-> parseDesktopFile(ScanOrder(fsys)[k].file)]
    IN  SelectSeq(all, LAMBDA m : m # Null)

\* the position of the first candidate with the given id
FirstIndex(cs, id) ==
    CHOOSE i \in 1..Len(cs) : cs[i].id = id /\ \A j \in 1..(i - 1) : cs[j].id # id

HasId(cs, id) == \E i \in 1..Len(cs) : cs[i].id = id

Scanned == ~isLoading

(***************************************************************************)
(* C5: deduplication in scan.  The returned collection holds at most one   *)
(* descriptor per id, and the one kept for an id is the first encountered  *)
(* in scan order (all of Origin A, then all of Origin B); when records of  *)
(* both origins resolve to one id, the one of Origin A is returned.        *)
(***************************************************************************)
C5_FirstOccurrenceWins ==
    Scanned =>
      LET cs == Candidates(fs)
      IN  /\ \A i, j \in 1..Len(modules) : i # j => modules[i].id # modules[j].id
          /\ \A i \in 1..Len(modules) :
                /\ HasId(cs, modules[i].id)
                /\ modules[i] = cs[FirstIndex(cs, modules[i].id)]

\* both directories hold a well-formed record of one id, and the scan returned
\* the one of /usr/share/applications
C5_Witness ==
    /\ Scanned
    /\ \E a \in 1..Len(fs.applications.files), b \in 1..Len(fs.kservices5.files) :
          LET ma == parseDesktopFile(fs.applications.files[a].file)
              mb == parseDesktopFile(fs.kservices5.files[b].file)
          IN  /\ AcceptsFile("applications", fs.applications.files[a].name)
              /\ AcceptsFile("kservices5", fs.kservices5.files[b].name)
              /\ ma # Null /\ mb # Null
              /\ ma.id = mb.id /\ ma # mb
              /\ modules = <<ma>>

(***************************************************************************)
(* C9: scan recovers locally and continues.  Whatever origins are absent,  *)
(* fail to enumerate, or hold unreadable records, the scan returns, and    *)
(* its result holds exactly the descriptors (first per id) of all          *)
(* parseable records of the origins that could be enumerated: a missing or *)
(* failing Origin A does not keep Origin B's records out, an unreadable    *)
(* record does not drop the later records of its origin.                   *)
(***************************************************************************)
C9_ScanRecoversAndContinues ==
    Scanned =>
      LET cs == Candidates(fs)
      IN  /\ {modules[i] : i \in 1..Len(modules)}
                = {cs[FirstIndex(cs, cs[k].id)] : k \in 1..Len(cs)}
          /\ Len(modules) = Cardinality({cs[k].id : k \in 1..Len(cs)})

\* an unreadable record came before a parseable one in /usr/share/kservices5 while
\* /usr/share/applications could not be listed, and the parseable one was returned
C9_Witness ==
    /\ Scanned
    /\ fs.applications.exists /\ ~fs.applications.listable
    /\ Len(fs.kservices5.files) = 2
    /\ AcceptsFile("kservices5", fs.kservices5.files[1].name)
    /\ ~fs.kservices5.files[1].file.readable
    /\ Len(modules) = 1
    /\ modules[1] = parseDesktopFile(fs.kservices5.files[2].file)

(***************************************************************************)
(* C10: final ordering of scan.  The returned collection is ascending by   *)
(* name under the one comparison used (localeCompare), descriptors of      *)
(* equal names keep their scan order, and sorting the result again leaves  *)
(* it as it is.                                                            *)
(***************************************************************************)
C10_SortedStable ==
    Scanned =>
      LET cs == Candidates(fs)
      IN  /\ \A i \in 1..(Len(modules) - 1) :
                localeCompare(modules[i].name, modules[i + 1].name) <= 0
          /\ \A i, j \in 1..Len(modules) :
                (i < j /\ localeCompare(modules[i].name, modules[j].name) = 0)
                    => FirstIndex(cs, modules[i].id) < FirstIndex(cs, modules[j].id)
          /\ SortByName(modules) = modules

\* the sort moved a descriptor: the scan met the names in descending order
C10_Witness ==
    /\ Scanned
    /\ Len(modules) >= 2
    /\ modules # ScanBoth(fs).modules

(***************************************************************************)
(* C6: the filter.  The displayed list is exactly the order-preserving     *)
(* subsequence of the collection made of the descriptors for which the     *)
(* query is empty, or its lower-case form is a substring of the lower-case *)
(* name, description, or of at least one lower-case keyword; filtering     *)
(* with "" returns the collection, and filtering twice is filtering once.  *)
(***************************************************************************)
QueryMatches(m, q) ==
    \/ q = ""
    \/ Includes(ToLowerCase(m.name), ToLowerCase(q))
    \/ Includes(ToLowerCase(m.description), ToLowerCase(q))
    \/ \E k \in {m.keywords[i] : i \in 1..Len(m.keywords)} :
          Includes(ToLowerCase(k), ToLowerCase(q))

\* the elements of c at the positions kept, in their order
Subsequence(c, kept) == [k \in 1..Cardinality(kept) |-> c[Kth(kept, k)]]

C6_FilterIsMatchingSubsequence ==
    /\ filteredModules =
          Subsequence(modules, {i \in 1..Len(modules) : QueryMatches(modules[i], searchText)})
    /\ FilterModules(modules, "") = modules
    /\ FilterModules(filteredModules, searchText) = filteredModules

\* the query "bt" shows Bluetooth through its keyword "BT" alone and drops the
\* other loaded module
C6_Witness ==
    /\ ~isLoading
    /\ searchText = "bt"
    /\ Len(modules) = 2
    /\ Len(filteredModules) = 1
    /\ filteredModules[1].name = "Bluetooth"

(***************************************************************************)
(* The events of the running launch                                        *)
(***************************************************************************)
EventsWhere(P(_)) == {i \in 1..Len(events) : P(events[i])}

IsOpening(e) == e.type = "toast" /\ e.title = "Opening " \o moduleName \o "..."
IsSuccess(e) == e.type = "toast" /\ e.title = "Success"
IsError(e) == e.type = "toast" /\ e.title = "Error"
IsOutcome(e) == IsSuccess(e) \/ IsError(e)
IsSpawn(e) == e.type = "spawn"
IsClose(e) == e.type = "close"

(***************************************************************************)
(* C7: launch timeout and containment.  For every launch triggered by the  *)
(* "Open Settings Module" action: the external process is not waited for   *)
(* beyond the upper bound on wait time, the launch then ends with a        *)
(* timeout failure, and that failure is reported through the notification  *)
(* boundary.                                                               *)
(***************************************************************************)
C7_ActionLaunchTimesOut ==
    kind = "action" =>
      /\ (pc = "await" => elapsed <= timeout)
      /\ (elapsed >= timeout /\ pc = "done" /\ proc # "ok"
            => proc = "killed" /\ EventsWhere(IsError) # {})

====
